---- MODULE Spec2Model ----
(***************************************************************************)
(* Model of src/global.js: the choropleth's view state (current year,      *)
(* measure, persisted settings), the data index and the two colour scales  *)
(* built by loadData, the handlers installed on the map, the year slider,  *)
(* the measure checkbox and the country modal, and kalmanFilter.           *)
(*                                                                         *)
(* JavaScript values are records [t, n, d]: a number n/d (t = "num"), NaN, *)
(* null or undefined.  JavaScript strings that the code parses or prints   *)
(* (years, CSV fields, localStorage.year) are sequences of one-character   *)
(* strings; strings the code only compares (measure, ISO codes, names) are *)
(* TLA+ strings.                                                           *)
(*                                                                         *)
(* Of the page the model keeps what the handlers decide: fills, strokes,   *)
(* the legend's domain, format and stops, the year label, the checkbox,    *)
(* whether the tooltip and the modal are shown and what they hold, and the *)
(* zoom factor of the two zoom transforms.  Pixel positions (the tooltip's *)
(* left and top, set by mousemove, and the translation of a zoom) are left *)
(* out.  The markup is not part of the script: the modal starts hidden and *)
(* the checkbox unchecked.                                                 *)
(***************************************************************************)
EXTENDS Integers, Sequences, FiniteSets

(***************************************************************************)
(* JavaScript numbers, null and undefined                                  *)
(***************************************************************************)
Num(k) == [t |-> "num", n |-> k, d |-> 1]
NaN == [t |-> "nan", n |-> 0, d |-> 1]
Null == [t |-> "null", n |-> 0, d |-> 1]
Undefined == [t |-> "undef", n |-> 0, d |-> 1]

IsNum(x) == x.t = "num"

\* isNaN(x): ToNumber(x) is NaN.  null converts to 0, undefined to NaN.
IsNaNJs(x) == x.t \in {"nan", "undef"}

\* a < b and a > b of JavaScript on numbers: false when either side is NaN.
Lt(a, b) == IsNum(a) /\ IsNum(b) /\ a.n * b.d < b.n * a.d
Gt(a, b) == Lt(b, a)

RECURSIVE Gcd(_, _)
Gcd(a, b) == IF b = 0 THEN a ELSE Gcd(b, a % b)

Abs(k) == IF k < 0 THEN -k ELSE k

\* The number n/d (d # 0) in lowest terms with a positive denominator.
Frac(n, d) ==
    LET g == Gcd(Abs(n), Abs(d))
        s == IF d < 0 THEN -1 ELSE 1
    IN  [t |-> "num", n |-> (s * n) \div g, d |-> (s * d) \div g]

\* Unary minus, Math.abs, a - b, a + b, a * b, a / b; NaN and undefined give
\* NaN.  Common factors are cancelled before multiplying, so that the
\* intermediate products stay small.
Neg(a) == IF IsNum(a) THEN Frac(-a.n, a.d) ELSE NaN
AbsJs(a) == IF IsNum(a) THEN Frac(Abs(a.n), a.d) ELSE NaN
Sub(a, b) ==
    IF IsNum(a) /\ IsNum(b)
    THEN LET g == Gcd(a.d, b.d)
         IN  Frac(a.n * (b.d \div g) - b.n * (a.d \div g), (a.d \div g) * b.d)
    ELSE NaN
Add(a, b) ==
    IF IsNum(a) /\ IsNum(b)
    THEN LET g == Gcd(a.d, b.d)
         IN  Frac(a.n * (b.d \div g) + b.n * (a.d \div g), (a.d \div g) * b.d)
    ELSE NaN
Mul(a, b) ==
    IF IsNum(a) /\ IsNum(b)
    THEN LET g1 == Gcd(Abs(a.n), b.d)
             g2 == Gcd(Abs(b.n), a.d)
         IN  Frac((a.n \div g1) * (b.n \div g2), (a.d \div g2) * (b.d \div g1))
    ELSE NaN
\* Division by zero (Infinity) does not arise: every divisor the code forms is
\* guarded by a t0 === t1 test first, or is a sum of positive numbers.
Div(a, b) == IF IsNum(a) /\ IsNum(b) /\ b.n # 0 THEN Mul(a, Frac(b.d, b.n)) ELSE NaN

(***************************************************************************)
(* Strings as character sequences: ToNumber (unary +) and String(x)         *)
(***************************************************************************)
Digits == {"0", "1", "2", "3", "4", "5", "6", "7", "8", "9"}

DigitVal(c) ==
    CASE c = "0" -> 0 [] c = "1" -> 1 [] c = "2" -> 2 [] c = "3" -> 3
      [] c = "4" -> 4 [] c = "5" -> 5 [] c = "6" -> 6 [] c = "7" -> 7
      [] c = "8" -> 8 [] c = "9" -> 9

DigitChar(k) ==
    CASE k = 0 -> "0" [] k = 1 -> "1" [] k = 2 -> "2" [] k = 3 -> "3"
      [] k = 4 -> "4" [] k = 5 -> "5" [] k = 6 -> "6" [] k = 7 -> "7"
      [] k = 8 -> "8" [] k = 9 -> "9"

RECURSIVE TrimLeft(_)
TrimLeft(s) == IF s # <<>> /\ Head(s) = " " THEN TrimLeft(Tail(s)) ELSE s

RECURSIVE TrimRight(_)
TrimRight(s) ==
    IF s # <<>> /\ s[Len(s)] = " " THEN TrimRight(SubSeq(s, 1, Len(s) - 1)) ELSE s

RECURSIVE DecVal(_)
DecVal(s) ==
    IF s = <<>> THEN 0
    ELSE DecVal(SubSeq(s, 1, Len(s) - 1)) * 10 + DigitVal(s[Len(s)])

AllDigits(s) == s # <<>> /\ \A i \in 1..Len(s) : s[i] \in Digits

\* +s for a string s over digits, sign, blank and letters: blanks are trimmed,
\* the empty string is 0, a signed run of digits is its decimal value, and
\* anything else is NaN.
ToNumber(s) ==
    LET u == TrimRight(TrimLeft(s))
    IN  IF u = <<>> THEN Num(0)
        ELSE IF Head(u) = "-" /\ AllDigits(Tail(u)) THEN Num(-DecVal(Tail(u)))
        ELSE IF Head(u) = "+" /\ AllDigits(Tail(u)) THEN Num(DecVal(Tail(u)))
        ELSE IF AllDigits(u) THEN Num(DecVal(u))
        ELSE NaN

RECURSIVE NatDigits(_)
NatDigits(k) ==
    IF k < 10 THEN <<DigitChar(k)>> ELSE NatDigits(k \div 10) \o <<DigitChar(k % 10)>>

\* String(x) for an integer-valued number or NaN.
StringOf(x) ==
    IF IsNum(x)
    THEN IF x.n < 0 THEN <<"-">> \o NatDigits(-x.n) ELSE NatDigits(x.n)
    ELSE <<"N", "a", "N">>

\* A string is truthy when it is not empty.
Truthy(s) == Len(s) > 0

(***************************************************************************)
(* Inputs: the geographic feed and the rows of the tabular feed            *)
(***************************************************************************)
\* Largest number of rows of a CSV file drawn for a session, and for the
\* data-index specification.
MaxRows == 2
MaxBuildRows == 2

Y1700 == <<"1", "7", "0", "0">>
Y1850 == <<"1", "8", "5", "0">>
Y2014 == <<"2", "0", "1", "4">>
Y2015 == <<"2", "0", "1", "5">>
NotANumber == <<"n", "/", "a">>
Blank == <<" ">>
Empty == <<>>

\* The country features of the topology: d.id (a string, or undefined for a
\* territory without an ISO code) and d.properties.name.
Features ==
    { [id |-> "004", hasId |-> TRUE, name |-> "Afghanistan"],
      [id |-> "008", hasId |-> TRUE, name |-> "Albania"],
      [id |-> "", hasId |-> FALSE, name |-> "Kosovo"] }

\* String(d.id)
IsoOfFeature(f) == IF f.hasId THEN f.id ELSE "undefined"

CountryOf(iso) ==
    CASE iso \in {"004", "4"} -> "Afghanistan" [] OTHER -> "Albania"

MkRow(y, iso, a, c) ==
    [year |-> y, iso_num |-> iso, country |-> CountryOf(iso),
     avg_temp_absolute |-> a, avg_temp_change |-> c]

\* Rows of the files a session is run on: a country with a temperature in
\* 1850 whose change is not a number, and a country with a change but no
\* temperature in 2014.
SessionRows ==
    { MkRow(Y1850, "004", <<"1", "4">>, NotANumber),
      MkRow(Y2014, "008", Empty, <<"3">>) }

\* Rows of the files the data index and the scales are built from: these add a
\* malformed year, a second temperature and a negative change, and one row
\* whose ISO code is written differently from the topology's.
BuildRows ==
    { MkRow(y, "004", a, c) :
        y \in {Y1850, Y2014, NotANumber},
        a \in {Empty, <<"1", "4">>, <<"1", "6">>},
        c \in {Empty, <<"-", "5">>, <<"3">>} }
      \cup { MkRow(Y1850, "4", <<"1", "4">>, <<"3">>) }

SeqsUpTo(S, k) == UNION { [1..m -> S] : m \in 0..k }

(***************************************************************************)
(* loadData: the data index csvData (lines 59-73)                          *)
(***************************************************************************)
\* An object with insertion-ordered keys: ord lists the keys in insertion
\* order, val maps each key to its value.
EmptyObj == [ord |-> <<>>, val |-> [k \in {} |-> Null]]

HasKey(o, k) == k \in DOMAIN o.val

PutKey(o, k, v) ==
    [ord |-> IF HasKey(o, k) THEN o.ord ELSE Append(o.ord, k),
     val |-> [x \in DOMAIN o.val \cup {k} |-> IF x = k THEN v ELSE o.val[x]]]

\* d.field ? +d.field : null
FieldNum(s) == IF Truthy(s) THEN ToNumber(s) ELSE Null

\* The body of csv.forEach for one row d.
PutRow(data, d) ==
    LET year == ToNumber(d.year)
        key == StringOf(year)
        isoCode == d.iso_num
        data1 == IF ~HasKey(data, key) THEN PutKey(data, key, EmptyObj) ELSE data
        rec == [country |-> d.country,
                value |-> FieldNum(d.avg_temp_absolute),
                change |-> FieldNum(d.avg_temp_change),
                percentChange |-> FieldNum(d.avg_temp_change)]
    IN  PutKey(data1, key, PutKey(data1.val[key], isoCode, rec))

RECURSIVE BuildFrom(_, _)
BuildFrom(data, rows) ==
    IF rows = <<>> THEN data ELSE BuildFrom(PutRow(data, Head(rows)), Tail(rows))

BuildCsvData(rows) == BuildFrom(EmptyObj, rows)

\* csvData[year] for a number year: the property key is String(year).
YearEntry(data, year) ==
    IF HasKey(data, StringOf(year)) THEN data.val[StringOf(year)] ELSE EmptyObj

\* Whether csvData[year][isoCode] is a record (truthy) or undefined.
HasRecord(data, year, isoCode) == HasKey(YearEntry(data, year), isoCode)

\* csvData[year][isoCode], where it is a record.
Lookup(data, year, isoCode) == YearEntry(data, year).val[isoCode]

\* value !== null && !isNaN(value)
Usable(v) == v.t # "null" /\ ~IsNaNJs(v)

(***************************************************************************)
(* loadData: the two colour scales (lines 76-93)                           *)
(***************************************************************************)
\* d3.min and d3.max: the least and greatest of the numbers among the values,
\* null and NaN being skipped; undefined when there is none.
D3Min(S) ==
    LET nums == { v \in S : IsNum(v) }
    IN  IF nums = {} THEN Undefined
        ELSE CHOOSE m \in nums : \A v \in nums : ~Lt(v, m)

D3Max(S) ==
    LET nums == { v \in S : IsNum(v) }
    IN  IF nums = {} THEN Undefined
        ELSE CHOOSE m \in nums : \A v \in nums : ~Lt(m, v)

\* +x for a value that is already a number, null or undefined.
PlusJs(x) == IF IsNum(x) THEN x ELSE IF x.t = "null" THEN Num(0) ELSE NaN

\* a === b on numbers.
StrictEq(a, b) == IsNum(a) /\ IsNum(b) /\ a = b

\* csv.filter(d => d.avg_temp_absolute).map(d => +d.avg_temp_absolute)
AllValues(rows) ==
    { ToNumber(rows[i].avg_temp_absolute) :
        i \in { j \in 1..Len(rows) : Truthy(rows[j].avg_temp_absolute) } }

\* d3.scaleSequential(interpolateBlYlRd).domain([x0, x1])
ScaleSequential(x0, x1) ==
    [kind |-> "sequential", ramp |-> "RdYlBu", domain |-> <<PlusJs(x0), PlusJs(x1)>>]

\* d3.scaleDiverging(interpolateBlRd).domain([x0, x1, x2])
ScaleDiverging(x0, x1, x2) ==
    [kind |-> "diverging", ramp |-> "RdBu",
     domain |-> <<PlusJs(x0), PlusJs(x1), PlusJs(x2)>>]

NullScale == [kind |-> "null", ramp |-> "", domain |-> <<>>]

\* BuildAbsoluteScale with the two ends of the domain exchanged.
BuildAbsoluteScaleSwapped(rows) ==
    LET allValues == AllValues(rows)
    IN  ScaleSequential(D3Max(allValues), D3Min(allValues))

BuildAbsoluteScale(rows) ==
    LET allValues == AllValues(rows)
        minValue == D3Min(allValues)
        maxValue == D3Max(allValues)
    IN  ScaleSequential(minValue, maxValue)

\* Math.abs(data.percentChange) of every record of the index whose
\* percentChange is neither null nor NaN.
AllPercentChanges(data) ==
    LET pairs == UNION { {y} \X DOMAIN data.val[y].val : y \in DOMAIN data.val }
        change(p) == data.val[p[1]].val[p[2]].percentChange
    IN  { AbsJs(change(p)) : p \in { q \in pairs : Usable(change(q)) } }

\* Math.abs(...) left out of line 87, and the domain taken from the least and
\* the greatest change.
BuildRelativeScaleAsymmetric(data) ==
    LET pairs == UNION { {y} \X DOMAIN data.val[y].val : y \in DOMAIN data.val }
        change(p) == data.val[p[1]].val[p[2]].percentChange
        changes == { change(p) : p \in { q \in pairs : Usable(change(q)) } }
    IN  ScaleDiverging(D3Min(changes), Num(0), D3Max(changes))

BuildRelativeScale(data) ==
    LET maxPercentChange == D3Max(AllPercentChanges(data))
    IN  ScaleDiverging(Neg(maxPercentChange), Num(0), maxPercentChange)

\* A colour: the ramp it is taken from and the position t on that ramp, which
\* the ramp clamps to [0, 1].  The two interpolators of the code pass 1 - t.
Colour(ramp, t) ==
    [ramp |-> ramp,
     t |-> IF ~IsNum(t) THEN NaN
           ELSE IF Lt(t, Num(0)) THEN Num(0)
           ELSE IF Gt(t, Num(1)) THEN Num(1) ELSE t]

NoDataColour == [ramp |-> "#ccc", t |-> Num(0)]
UnknownColour == [ramp |-> "unknown", t |-> Num(0)]

Half == Frac(1, 2)

\* scale(x) of a d3 sequential or diverging scale, followed by the
\* interpolator t => d3.interpolateXX(1 - t).
ApplyScale(scale, x) ==
    IF scale.kind = "sequential"
    THEN IF x.t \in {"null", "undef"} \/ IsNaNJs(x) THEN UnknownColour
         ELSE LET t0 == scale.domain[1]
                  t1 == scale.domain[2]
                  k10 == IF StrictEq(t0, t1) THEN Num(0) ELSE Div(Num(1), Sub(t1, t0))
                  t == IF k10 = Num(0) THEN Half ELSE Mul(Sub(PlusJs(x), t0), k10)
              IN  Colour(scale.ramp, Sub(Num(1), t))
    ELSE IF IsNaNJs(x) THEN UnknownColour
         ELSE LET v == PlusJs(x)
                  t0 == scale.domain[1]
                  t1 == scale.domain[2]
                  t2 == scale.domain[3]
                  k10 == IF StrictEq(t0, t1) THEN Num(0) ELSE Div(Half, Sub(t1, t0))
                  k21 == IF StrictEq(t1, t2) THEN Num(0) ELSE Div(Half, Sub(t2, t1))
                  s == IF Lt(t1, t0) THEN Num(-1) ELSE Num(1)
                  k == IF Lt(Mul(s, v), Mul(s, t1)) THEN k10 ELSE k21
                  t == Add(Half, Mul(Sub(v, t1), k))
              IN  Colour(scale.ramp, Sub(Num(1), t))

(***************************************************************************)
(* drawMap: the fill of one country path (lines 204-222)                   *)
(***************************************************************************)
\* FillOf without the test for a null or NaN value.
FillOfUnchecked(data, year, measure, hasScale, scale, f) ==
    LET isoCode == IsoOfFeature(f)
    IN  IF HasRecord(data, year, isoCode) /\ hasScale
        THEN LET rec == Lookup(data, year, isoCode)
             IN  ApplyScale(scale, IF measure = "absolute" THEN rec.value
                                   ELSE rec.percentChange)
        ELSE NoDataColour

\* colorScale is null, or one of the two scale objects; scale is the object
\* it refers to.
FillOf(data, year, measure, hasScale, scale, f) ==
    LET isoCode == IsoOfFeature(f)
    IN  IF HasRecord(data, year, isoCode) /\ hasScale
        THEN LET rec == Lookup(data, year, isoCode)
                 valueToUse == IF measure = "absolute" THEN rec.value
                               ELSE rec.percentChange
             IN  IF Usable(valueToUse) THEN ApplyScale(scale, valueToUse)
                 ELSE NoDataColour
        ELSE NoDataColour

(***************************************************************************)
(* Program constants and the inputs of a session                           *)
(***************************************************************************)
MinYear == 1850
MaxYear == 2014
DefaultYear == 2014
NumStops == 10

\* Largest zoom factor a zoom gesture asks for.
MaxZoomK == 2

\* Values found in localStorage when the page is opened.
StoredYears == {Y1700, Y1850, Y2015, NotANumber, Empty, Blank}
StoredMeasures == {"absolute", "change", "percent", ""}

\* Values of the year slider (this.value) when its input event fires.
SliderValues == {Y1700, Y1850, Y2014}

FeatureNames == { f.name : f \in Features }
FeatureNamed(name) == CHOOSE f \in Features : f.name = name

VARIABLES
    pc,                 \* "script", "fetching", "ready" or "failed"
    localStorage,       \* the persisted keys year and measure, where present
    worldFetch,         \* d3.json(...): "pending", "ok" or "failed"
    csvFetch,           \* d3.csv(...): "pending", "ok" or "failed"
    csv,                \* the rows d3.csv resolved with
    worldData,          \* FALSE while null, TRUE once the topology is assigned
    csvData,
    currentYear,
    measure,
    colorScale,         \* "null", "colorScaleAbsolute" or "colorScaleChange"
    colorScaleAbsolute,
    colorScaleChange,
    map,                \* the country paths: the year they were drawn for, fills, strokes
    legend,
    controls,           \* the year label, the checkbox and the installed handlers
    tooltip,            \* its opacity, and which lines its html holds
    pointer,            \* what the mouse pointer is over
    modal,
    mapTransform,
    chartTransform,
    lastEvent,          \* the event handled last, and the error it raised
    kalman              \* an activation of kalmanFilter: its arguments and locals

dataVars == <<csv, worldData, csvData, colorScaleAbsolute, colorScaleChange>>
fetchVars == <<worldFetch, csvFetch>>
viewVars == <<currentYear, measure, colorScale>>
vars == <<pc, localStorage, worldFetch, csvFetch, csv, worldData, csvData, currentYear,
          measure, colorScale, colorScaleAbsolute, colorScaleChange, map, legend,
          controls, tooltip, pointer, modal, mapTransform, chartTransform, lastEvent,
          kalman>>

\* localStorage.key = v
SetItem(store, key, v) ==
    [k \in DOMAIN store \cup {key} |-> IF k = key THEN v ELSE store[k]]

HasItem(store, key) == key \in DOMAIN store

NoStore == [k \in {} |-> Empty]

InitialStores ==
    {NoStore}
      \cup { SetItem(NoStore, "year", y) : y \in StoredYears }
      \cup { SetItem(NoStore, "measure", m) : m \in StoredMeasures }
      \cup { SetItem(SetItem(NoStore, "year", y), "measure", m) :
               y \in StoredYears, m \in StoredMeasures }

NoEvent == [type |-> "none", feature |-> "", value |-> Empty, error |-> "none"]
Event(type, feature) ==
    [type |-> type, feature |-> feature, value |-> Empty, error |-> "none"]
Thrown(type, feature) ==
    [type |-> type, feature |-> feature, value |-> Empty, error |-> "TypeError"]

\* The scale object colorScale refers to.
ScaleRef(ref, absolute, change) ==
    IF ref = "colorScaleAbsolute" THEN absolute ELSE change

\* SelectScale leaving colorScale null for the relative measure.
SelectScaleAbsoluteOnly(m) == IF m = "absolute" THEN "colorScaleAbsolute" ELSE "null"

\* measure === 'absolute' ? colorScaleAbsolute : colorScaleChange
SelectScale(m) == IF m = "absolute" THEN "colorScaleAbsolute" ELSE "colorScaleChange"

(***************************************************************************)
(* drawMap and drawLegend                                                  *)
(***************************************************************************)
\* drawMap(year): every path gets its fill for the year, a white stroke and
\* handlers closed over year and yearData.  Without worldData nothing is drawn.
DrawMap(old, loaded, data, year, m, ref, absolute, change) ==
    IF ~loaded THEN old
    ELSE [drawn |-> TRUE,
          year |-> year,
          fill |-> [n \in FeatureNames |->
                      FillOf(data, year, m, ref # "null",
                             ScaleRef(ref, absolute, change), FeatureNamed(n))],
          stroke |-> [n \in FeatureNames |-> "#fff"]]

\* d3.interpolateNumber(a, b)(i / NumStops)
StopValue(a, b, i) ==
    Add(Mul(a, Sub(Num(1), Frac(i, NumStops))), Mul(b, Frac(i, NumStops)))

\* drawLegend(): the axis domain and tick format, the gradient stops and the
\* title, all from the current measure and colorScale.
DrawLegend(old, m, ref, absolute, change) ==
    IF ref = "null" THEN old
    ELSE LET scale == ScaleRef(ref, absolute, change)
             domain == scale.domain
             last == IF m = "absolute" THEN domain[2] ELSE domain[3]
         IN  [drawn |-> TRUE,
              domain |-> <<domain[1], last>>,
              format |-> IF m = "absolute" THEN "degC" ELSE "signed%",
              stops |-> [i \in 0..NumStops |->
                           ApplyScale(scale, StopValue(domain[1], last, i))],
              title |-> IF m = "absolute" THEN "Average Temperature"
                        ELSE "Temperature Change"]

NoMap == [drawn |-> FALSE, year |-> Undefined, fill |-> <<>>, stroke |-> <<>>]
NoLegend == [drawn |-> FALSE, domain |-> <<>>, format |-> "", stops |-> <<>>, title |-> ""]

(***************************************************************************)
(* kalmanFilter (lines 319-344)                                            *)
(***************************************************************************)
\* The noise kalmanFilter defaults to (line 319) and the noise
\* showCountryModal calls it with (line 449).
DefaultNoise == [processNoise |-> Frac(1, 100), measurementNoise |-> Frac(3, 5)]
ModalNoise == [processNoise |-> Frac(1, 10), measurementNoise |-> Frac(1, 2)]

\* InitialEstimate starting from zero instead of the first measurement.
InitialEstimateZero(data) == Num(0)

\* let estimate = data[0].temperature
InitialEstimate(data) == data[1].temperature

\* let errorEstimate = 1.0
InitialErrorEstimate == Frac(1, 1)

\* const predictedError = errorEstimate + processNoise
PredictedError(errorEstimate, processNoise) == Add(errorEstimate, processNoise)

\* KalmanGain without the predicted error in the divisor.
KalmanGainUnnormalised(predictedError, measurementNoise) ==
    Div(predictedError, measurementNoise)

\* const kalmanGain = predictedError / (predictedError + measurementNoise)
KalmanGain(predictedError, measurementNoise) ==
    Div(predictedError, Add(predictedError, measurementNoise))

\* estimate = predictedEstimate + kalmanGain * (point.temperature - predictedEstimate)
UpdatedEstimate(predictedEstimate, kalmanGain, temperature) ==
    Add(predictedEstimate, Mul(kalmanGain, Sub(temperature, predictedEstimate)))

\* UpdatedError without the factor (1 - kalmanGain).
UpdatedErrorUnreduced(kalmanGain, predictedError) == predictedError

\* errorEstimate = (1 - kalmanGain) * predictedError
UpdatedError(kalmanGain, predictedError) == Mul(Sub(Num(1), kalmanGain), predictedError)

\* SmoothedPoint with the estimate written over the raw temperature.
SmoothedPointOverwritten(point, estimate) ==
    [year |-> point.year, temperature |-> estimate, originalTemperature |-> estimate]

\* The object pushed to smoothedData (lines 336-340).
SmoothedPoint(point, estimate) ==
    [year |-> point.year, temperature |-> estimate,
     originalTemperature |-> point.temperature]

\* The callback of data.forEach, run on point with the locals in k.
KalmanUpdate(k, point) ==
    LET predictedEstimate == k.estimate
        predictedError == PredictedError(k.errorEstimate, k.processNoise)
        kalmanGain == KalmanGain(predictedError, k.measurementNoise)
        estimate == UpdatedEstimate(predictedEstimate, kalmanGain, point.temperature)
    IN  [k EXCEPT !.i = @ + 1,
                  !.estimate = estimate,
                  !.errorEstimate = UpdatedError(kalmanGain, predictedError),
                  !.smoothedData = Append(@, SmoothedPoint(point, estimate))]

\* The activation of kalmanFilter(data, processNoise, measurementNoise) at its
\* first line, and once the locals are initialised.
KalmanCall(data, processNoise, measurementNoise) ==
    [pc |-> "called", data |-> data, processNoise |-> processNoise,
     measurementNoise |-> measurementNoise, i |-> 0, estimate |-> Undefined,
     errorEstimate |-> Undefined, smoothedData |-> <<>>, result |-> <<>>]

KalmanLocals(k) ==
    [k EXCEPT !.pc = "forEach",
              !.estimate = InitialEstimate(k.data),
              !.errorEstimate = InitialErrorEstimate]

RECURSIVE KalmanForEach(_)
KalmanForEach(k) ==
    IF k.i = Len(k.data) THEN k ELSE KalmanForEach(KalmanUpdate(k, k.data[k.i + 1]))

\* kalmanFilter as a function: what a call returns.
kalmanFilter(data, processNoise, measurementNoise) ==
    IF Len(data) = 0 THEN data
    ELSE KalmanForEach(KalmanLocals(KalmanCall(data, processNoise, measurementNoise))).smoothedData

NotCalled == [KalmanCall(<<>>, Num(0), Num(0)) EXCEPT !.pc = "idle"]

\* Lines 441-446: the domain of the chart's temperature axis.
YDomain(countryData) ==
    LET temperatures == { countryData[i].temperature : i \in 1..Len(countryData) }
    IN  <<Sub(D3Min(temperatures), Num(1)), Add(D3Max(temperatures), Num(1))>>

NoModal ==
    [display |-> "none", hasContent |-> FALSE, title |-> "", countryData |-> <<>>,
     smoothedData |-> <<>>]

\* kalmanFilter run statement by statement: line 320 and lines 322-324, one
\* pass of the forEach callback, and the return of line 343.
pageVars == <<pc, localStorage, worldFetch, csvFetch, csv, worldData, csvData, currentYear,
              measure, colorScale, colorScaleAbsolute, colorScaleChange, map, legend,
              controls, tooltip, pointer, modal, mapTransform, chartTransform, lastEvent>>

KalmanEnter ==
    /\ kalman.pc = "called"
    /\ kalman' = IF Len(kalman.data) = 0
                  THEN [kalman EXCEPT !.pc = "returned", !.result = kalman.data]
                  ELSE KalmanLocals(kalman)
    /\ UNCHANGED pageVars

KalmanPoint ==
    /\ kalman.pc = "forEach"
    /\ kalman.i < Len(kalman.data)
    /\ kalman' = KalmanUpdate(kalman, kalman.data[kalman.i + 1])
    /\ UNCHANGED pageVars

KalmanReturn ==
    /\ kalman.pc = "forEach"
    /\ kalman.i = Len(kalman.data)
    /\ kalman' = [kalman EXCEPT !.pc = "returned", !.result = kalman.smoothedData]
    /\ UNCHANGED pageVars

(***************************************************************************)
(* The page before the script runs, and the start-up sequence              *)
(***************************************************************************)
Init ==
    /\ pc = "script"
    /\ localStorage \in InitialStores
    /\ worldFetch = "pending"
    /\ csvFetch = "pending"
    /\ csv = <<>>
    /\ worldData = FALSE
    /\ csvData = EmptyObj
    /\ currentYear = Num(DefaultYear)
    /\ measure = "absolute"
    /\ colorScale = "null"
    /\ colorScaleAbsolute = NullScale
    /\ colorScaleChange = NullScale
    /\ map = NoMap
    /\ legend = NoLegend
    /\ controls = [yearLabel |-> Empty, checked |-> FALSE, handlers |-> {}]
    /\ tooltip = [opacity |-> 0, html |-> ""]
    /\ pointer = "none"
    /\ modal = NoModal
    /\ mapTransform = 1
    /\ chartTransform = 1
    /\ lastEvent = NoEvent
    /\ kalman = NotCalled

\* Lines 41-47: the persisted year is adopted, and replaced by the default
\* when it compares below MinYear or above MaxYear.
HydratedYear(store) ==
    IF HasItem(store, "year") /\ Truthy(store["year"])
    THEN LET y == ToNumber(store["year"])
         IN  IF Lt(y, Num(MinYear)) \/ Gt(y, Num(MaxYear)) THEN Num(DefaultYear) ELSE y
    ELSE Num(DefaultYear)

HydratedStore(store) ==
    IF HasItem(store, "year") /\ Truthy(store["year"])
    THEN LET y == ToNumber(store["year"])
         IN  IF Lt(y, Num(MinYear)) \/ Gt(y, Num(MaxYear))
             THEN SetItem(store, "year", StringOf(Num(DefaultYear)))
             ELSE store
    ELSE store

HydrateYear ==
    /\ pc = "script"
    /\ pc' = "fetching"
    /\ currentYear' = HydratedYear(localStorage)
    /\ localStorage' = HydratedStore(localStorage)
    /\ UNCHANGED <<kalman, fetchVars, dataVars, measure, colorScale, map, legend, controls,
                   tooltip, pointer, modal, mapTransform, chartTransform, lastEvent>>

\* The two fetches of Promise.all settle in either order.
WorldFetched ==
    /\ pc \in {"fetching", "failed"}
    /\ worldFetch = "pending"
    /\ worldFetch' = "ok"
    /\ UNCHANGED <<kalman, pc, localStorage, csvFetch, dataVars, viewVars, map, legend, controls,
                   tooltip, pointer, modal, mapTransform, chartTransform, lastEvent>>

CsvFetched(rows) ==
    /\ pc \in {"fetching", "failed"}
    /\ csvFetch = "pending"
    /\ csvFetch' = "ok"
    /\ csv' = rows
    /\ UNCHANGED <<kalman, pc, localStorage, worldFetch, worldData, csvData, colorScaleAbsolute,
                   colorScaleChange, viewVars, map, legend, controls, tooltip, pointer,
                   modal, mapTransform, chartTransform, lastEvent>>

\* A rejected fetch rejects Promise.all and with it loadData, whose rejection
\* nothing handles: the rest of loadData never runs.
WorldFailed ==
    /\ pc \in {"fetching", "failed"}
    /\ worldFetch = "pending"
    /\ worldFetch' = "failed"
    /\ pc' = "failed"
    /\ UNCHANGED <<kalman, localStorage, csvFetch, dataVars, viewVars, map, legend, controls,
                   tooltip, pointer, modal, mapTransform, chartTransform, lastEvent>>

CsvFailed ==
    /\ pc \in {"fetching", "failed"}
    /\ csvFetch = "pending"
    /\ csvFetch' = "failed"
    /\ pc' = "failed"
    /\ UNCHANGED <<kalman, localStorage, worldFetch, dataVars, viewVars, map, legend, controls,
                   tooltip, pointer, modal, mapTransform, chartTransform, lastEvent>>

\* Lines 97-102: the persisted measure is adopted when it is a non-empty
\* string; otherwise 'absolute' is used and persisted.
HydratedMeasure(store) ==
    IF HasItem(store, "measure") /\ store["measure"] # "" THEN store["measure"]
    ELSE "absolute"

\* BothResolved as Promise.any would have it: one resolved fetch is enough.
EitherResolved == worldFetch = "ok" \/ csvFetch = "ok"

\* await Promise.all([...]) resumes loadData when both fetches have resolved.
BothResolved == worldFetch = "ok" /\ csvFetch = "ok"

\* Lines 56-108, run once both fetches have resolved.
LoadData ==
    /\ pc = "fetching"
    /\ BothResolved
    /\ pc' = "ready"
    /\ worldData' = TRUE
    /\ csvData' = BuildCsvData(csv)
    /\ colorScaleAbsolute' = BuildAbsoluteScale(csv)
    /\ colorScaleChange' = BuildRelativeScale(csvData')
    /\ measure' = HydratedMeasure(localStorage)
    /\ localStorage' = IF HasItem(localStorage, "measure") /\ localStorage["measure"] # ""
                       THEN localStorage
                       ELSE SetItem(localStorage, "measure", "absolute")
    /\ colorScale' = SelectScale(measure')
    /\ map' = DrawMap(map, worldData', csvData', currentYear, measure', colorScale',
                      colorScaleAbsolute', colorScaleChange')
    /\ legend' = DrawLegend(legend, measure', colorScale', colorScaleAbsolute',
                            colorScaleChange')
    /\ controls' = [yearLabel |-> StringOf(currentYear),
                    checked |-> (measure' = "change"),
                    handlers |-> {"yearSlider.input", "measureCheckbox.change"}]
    /\ UNCHANGED <<kalman, fetchVars, csv, currentYear, tooltip, pointer, modal, mapTransform,
                   chartTransform, lastEvent>>

(***************************************************************************)
(* The year slider and the measure checkbox (lines 284-316)                *)
(***************************************************************************)
\* PersistYear without the write to localStorage.year.
PersistYearSkipped(store, year) == store

\* What the slider's input handler persists.
PersistYear(store, year) == SetItem(store, "year", StringOf(year))

\* RedrawForYear without the call of drawMap.
RedrawForYearStale(year) == map

\* What the slider's input handler draws.
RedrawForYear(year) ==
    DrawMap(map, worldData, csvData, year, measure, colorScale, colorScaleAbsolute,
            colorScaleChange)

YearInput(v) ==
    /\ "yearSlider.input" \in controls.handlers
    /\ currentYear' = ToNumber(v)
    /\ controls' = [controls EXCEPT !.yearLabel = StringOf(currentYear')]
    /\ localStorage' = PersistYear(localStorage, currentYear')
    /\ map' = RedrawForYear(currentYear')
    /\ lastEvent' = [Event("yearInput", "") EXCEPT !.value = v]
    /\ UNCHANGED <<kalman, pc, fetchVars, dataVars, measure, colorScale, legend, tooltip, pointer,
                   modal, mapTransform, chartTransform>>

\* event.target.checked ? 'change' : 'absolute'
MeasureOf(checked) == IF checked THEN "change" ELSE "absolute"

\* What the checkbox's change handler persists.
PersistMeasure(store, m) == SetItem(store, "measure", m)

\* The legend the checkbox's change handler leaves.
RedrawLegend(m, ref) ==
    DrawLegend(legend, m, ref, colorScaleAbsolute, colorScaleChange)

\* The user toggles the checkbox, and its change handler runs.
MeasureChange ==
    /\ "measureCheckbox.change" \in controls.handlers
    /\ controls' = [controls EXCEPT !.checked = ~controls.checked]
    /\ measure' = MeasureOf(controls'.checked)
    /\ localStorage' = PersistMeasure(localStorage, measure')
    /\ colorScale' = SelectScale(measure')
    /\ map' = DrawMap(map, worldData, csvData, currentYear, measure', colorScale',
                      colorScaleAbsolute, colorScaleChange)
    /\ legend' = RedrawLegend(measure', colorScale')
    /\ lastEvent' = Event("measureChange", "")
    /\ UNCHANGED <<kalman, pc, fetchVars, dataVars, currentYear, tooltip, pointer, modal,
                   mapTransform, chartTransform>>

(***************************************************************************)
(* The handlers drawMap installs on a country path (lines 223-281)         *)
(***************************************************************************)
\* The tooltip text the mouseover handler builds for a record, or "TypeError"
\* where it calls toFixed on a null value.
TooltipBody(rec, m) ==
    IF m = "absolute"
    THEN IF rec.value.t = "null" THEN "TypeError"
         ELSE IF Usable(rec.percentChange) THEN "Temperature, Delta"
         ELSE "Temperature"
    ELSE IF Usable(rec.percentChange)
         THEN IF rec.value.t = "null" THEN "TypeError"
              ELSE "Delta Temperature, Temperature"
         ELSE "Delta Temperature: N/A"

MouseOver(f) ==
    /\ map.drawn
    /\ pointer = "none"
    /\ pointer' = f.name
    /\ map' = [map EXCEPT !.stroke[f.name] = "#000"]
    /\ LET isoCode == IsoOfFeature(f)
       IN  IF HasRecord(csvData, map.year, isoCode)
           THEN LET data == Lookup(csvData, map.year, isoCode)
                    body == TooltipBody(data, measure)
                IN  IF body = "TypeError"
                    THEN /\ tooltip' = tooltip
                         /\ lastEvent' = Thrown("mouseover", f.name)
                    ELSE /\ tooltip' = [opacity |-> 1, html |-> body]
                         /\ lastEvent' = Event("mouseover", f.name)
           ELSE /\ tooltip' = [opacity |-> 1, html |-> "No data available"]
                /\ lastEvent' = Event("mouseover", f.name)
    /\ UNCHANGED <<kalman, pc, localStorage, fetchVars, dataVars, viewVars, legend, controls,
                   modal, mapTransform, chartTransform>>

MouseOut(f) ==
    /\ map.drawn
    /\ pointer = f.name
    /\ pointer' = "none"
    /\ map' = [map EXCEPT !.stroke[f.name] = "#fff"]
    /\ tooltip' = [tooltip EXCEPT !.opacity = 0]
    /\ lastEvent' = Event("mouseout", f.name)
    /\ UNCHANGED <<kalman, pc, localStorage, fetchVars, dataVars, viewVars, legend, controls,
                   modal, mapTransform, chartTransform>>

(***************************************************************************)
(* showCountryModal (lines 346-596)                                        *)
(***************************************************************************)
RECURSIVE InsertByNumber(_, _)
InsertByNumber(q, k) ==
    IF q = <<>> THEN <<k>>
    ELSE IF Lt(ToNumber(k), ToNumber(Head(q))) THEN <<k>> \o q
    ELSE <<Head(q)>> \o InsertByNumber(Tail(q), k)

RECURSIVE SortByNumber(_)
SortByNumber(q) ==
    IF q = <<>> THEN <<>> ELSE InsertByNumber(SortByNumber(Tail(q)), Head(q))

\* A key is an array index when it is the canonical string of a non-negative
\* integer; the keys of csvData are all written by String(number).
IsIndexKey(k) == IsNum(ToNumber(k)) /\ ToNumber(k).n >= 0

\* Object.keys(o): the index keys in ascending order, then the other keys in
\* insertion order.
ObjectKeys(o) ==
    LET isIndex(k) == IsIndexKey(k)
        notIndex(k) == ~IsIndexKey(k)
    IN  SortByNumber(SelectSeq(o.ord, isIndex)) \o SelectSeq(o.ord, notIndex)

\* PointsOf without the test of line 352: every record gives a point.
RECURSIVE PointsOfUnfiltered(_, _, _)
PointsOfUnfiltered(data, keys, isoCode) ==
    IF keys = <<>> THEN <<>>
    ELSE LET year == Head(keys)
             rest == PointsOfUnfiltered(data, Tail(keys), isoCode)
         IN  IF HasKey(data.val[year], isoCode)
             THEN <<[year |-> ToNumber(year),
                     temperature |-> data.val[year].val[isoCode].value]>> \o rest
             ELSE rest

\* Lines 348-359: the points pushed while walking Object.keys(csvData).
RECURSIVE PointsOf(_, _, _)
PointsOf(data, keys, isoCode) ==
    IF keys = <<>> THEN <<>>
    ELSE LET year == Head(keys)
             rest == PointsOf(data, Tail(keys), isoCode)
         IN  IF HasKey(data.val[year], isoCode)
                /\ Usable(data.val[year].val[isoCode].value)
             THEN <<[year |-> ToNumber(year),
                     temperature |-> data.val[year].val[isoCode].value]>> \o rest
             ELSE rest

RECURSIVE InsertByYear(_, _)
InsertByYear(q, p) ==
    IF q = <<>> THEN <<p>>
    ELSE IF Lt(p.year, Head(q).year) THEN <<p>> \o q
    ELSE <<Head(q)>> \o InsertByYear(Tail(q), p)

RECURSIVE SortByYear(_)
SortByYear(q) ==
    IF q = <<>> THEN <<>>
    ELSE InsertByYear(SortByYear(SubSeq(q, 1, Len(q) - 1)), q[Len(q)])

Orderings(q) ==
    { [i \in 1..Len(q) |-> q[f[i]]] :
        f \in { g \in [1..Len(q) -> 1..Len(q)] :
                  \A i, j \in 1..Len(q) : i # j => g[i] # g[j] } }

\* countryData.sort((a, b) => a.year - b.year).  The comparator returns NaN,
\* which sort reads as 0, for a point with a NaN year: with such a point and
\* two different numeric years the comparator is not consistent and the order
\* of the result is implementation-defined.
SortOutcomes(q) ==
    LET nums == { i \in 1..Len(q) : IsNum(q[i].year) }
    IN  IF Cardinality(nums) = Len(q) \/ Cardinality(nums) <= 1
        THEN {SortByYear(q)}
        ELSE Orderings(q)

CountryDataOutcomes(data, isoCode) ==
    SortOutcomes(PointsOf(data, ObjectKeys(data), isoCode))

\* HasNoData without the early return.
HasNoDataNever(countryData) == FALSE

\* countryData.length === 0: showCountryModal returns before showing anything.
HasNoData(countryData) == Len(countryData) = 0

\* The modal once showCountryModal has drawn country data in it.
ShownModal(countryName, countryData) ==
    [display |-> "flex", hasContent |-> TRUE, title |-> countryName,
     countryData |-> countryData,
     smoothedData |-> kalmanFilter(countryData, ModalNoise.processNoise,
                                   ModalNoise.measurementNoise)]

\* The click handler of a country path.
Click(f) ==
    /\ map.drawn
    /\ pointer = f.name
    /\ lastEvent' = Event("click", f.name)
    /\ LET isoCode == IsoOfFeature(f)
       IN  IF HasRecord(csvData, map.year, isoCode)
           THEN \E countryData \in CountryDataOutcomes(csvData, isoCode) :
                   IF HasNoData(countryData)
                   THEN UNCHANGED <<modal, chartTransform, controls>>
                   ELSE /\ modal' = ShownModal(Lookup(csvData, map.year, isoCode).country,
                                               countryData)
                        /\ chartTransform' = 1
                        /\ controls' = [controls EXCEPT
                                          !.handlers = @ \cup {"modal.click"}]
           ELSE UNCHANGED <<modal, chartTransform, controls>>
    /\ UNCHANGED <<kalman, pc, localStorage, fetchVars, dataVars, viewVars, map, legend, tooltip,
                   pointer, mapTransform>>

\* The close button of the modal content (lines 383-385).
CloseButton ==
    /\ modal.hasContent
    /\ modal.display = "flex"
    /\ modal' = [modal EXCEPT !.display = "none"]
    /\ lastEvent' = Event("close", "")
    /\ UNCHANGED <<kalman, pc, localStorage, fetchVars, dataVars, viewVars, map, legend, controls,
                   tooltip, pointer, mapTransform, chartTransform>>

\* A click on the modal itself, outside its content (lines 591-595).
BackdropClick ==
    /\ "modal.click" \in controls.handlers
    /\ modal.display = "flex"
    /\ modal' = [modal EXCEPT !.display = "none"]
    /\ lastEvent' = Event("backdrop", "")
    /\ UNCHANGED <<kalman, pc, localStorage, fetchVars, dataVars, viewVars, map, legend, controls,
                   tooltip, pointer, mapTransform, chartTransform>>

\* The tooltip of a point marker of the chart (lines 488-510).
CircleOver(i) ==
    /\ modal.display = "flex"
    /\ i \in 1..Len(modal.countryData)
    /\ pointer = "none"
    /\ pointer' = "circle"
    /\ tooltip' = [opacity |-> 1, html |-> "Smoothed, Original"]
    /\ lastEvent' = Event("circleover", "")
    /\ UNCHANGED <<kalman, pc, localStorage, fetchVars, dataVars, viewVars, map, legend, controls,
                   modal, mapTransform, chartTransform>>

CircleOut ==
    /\ pointer = "circle"
    /\ pointer' = "none"
    /\ tooltip' = [tooltip EXCEPT !.opacity = 0]
    /\ lastEvent' = Event("circleout", "")
    /\ UNCHANGED <<kalman, pc, localStorage, fetchVars, dataVars, viewVars, map, legend, controls,
                   modal, mapTransform, chartTransform>>

(***************************************************************************)
(* The two zoom behaviours (lines 11-18 and 535-571)                       *)
(***************************************************************************)
MapZoomMin == 1
MapZoomMax == 8
ChartZoomMin == 1
ChartZoomMax == 10

Clamp(k, lo, hi) == IF k < lo THEN lo ELSE IF k > hi THEN hi ELSE k

\* MapZoom with one zoom factor shared by the map and the chart.
MapZoomCoupled(k) ==
    /\ pc # "script"
    /\ mapTransform' = Clamp(k, MapZoomMin, MapZoomMax)
    /\ chartTransform' = mapTransform'
    /\ lastEvent' = Event("mapZoom", "")
    /\ UNCHANGED <<kalman, pc, localStorage, fetchVars, dataVars, viewVars, map, legend,
                   controls, tooltip, pointer, modal>>

\* svg.call(zoom) runs with the script, before the data is loaded.
MapZoom(k) ==
    /\ pc # "script"
    /\ mapTransform' = Clamp(k, MapZoomMin, MapZoomMax)
    /\ lastEvent' = Event("mapZoom", "")
    /\ UNCHANGED <<kalman, pc, localStorage, fetchVars, dataVars, viewVars, map, legend, controls,
                   tooltip, pointer, modal, chartTransform>>

ChartZoom(k) ==
    /\ modal.hasContent
    /\ modal.display = "flex"
    /\ chartTransform' = Clamp(k, ChartZoomMin, ChartZoomMax)
    /\ lastEvent' = Event("chartZoom", "")
    /\ UNCHANGED <<kalman, pc, localStorage, fetchVars, dataVars, viewVars, map, legend, controls,
                   tooltip, pointer, modal, mapTransform>>

(***************************************************************************)
(* The session                                                             *)
(***************************************************************************)
\* The files of a session: up to MaxRows rows, no row twice.
CsvFiles ==
    { rows \in SeqsUpTo(SessionRows, MaxRows) :
        \A i, j \in 1..Len(rows) : i # j => rows[i] # rows[j] }

Next ==
    \/ HydrateYear
    \/ WorldFetched
    \/ WorldFailed
    \/ \E rows \in CsvFiles : CsvFetched(rows)
    \/ CsvFailed
    \/ LoadData
    \/ \E v \in SliderValues : YearInput(v)
    \/ MeasureChange
    \/ \E f \in Features : MouseOver(f)
    \/ \E f \in Features : MouseOut(f)
    \/ \E f \in Features : Click(f)
    \/ CloseButton
    \/ BackdropClick
    \/ \E i \in 1..MaxRows : CircleOver(i)
    \/ CircleOut
    \/ \E k \in 0..MaxZoomK : MapZoom(k)
    \/ \E k \in 0..MaxZoomK : ChartZoom(k)

Spec == Init /\ [][Next]_vars

(***************************************************************************)
(* loadData alone, on a wider range of files: the page has run its script, *)
(* nothing is persisted, and the CSV has resolved with any file of up to   *)
(* MaxBuildRows rows.                                                      *)
(***************************************************************************)
BuildFiles == SeqsUpTo(BuildRows, MaxBuildRows)

InitBuild ==
    /\ pc = "fetching"
    /\ localStorage = NoStore
    /\ worldFetch = "pending"
    /\ csvFetch = "ok"
    /\ csv \in BuildFiles
    /\ worldData = FALSE
    /\ csvData = EmptyObj
    /\ currentYear = Num(DefaultYear)
    /\ measure = "absolute"
    /\ colorScale = "null"
    /\ colorScaleAbsolute = NullScale
    /\ colorScaleChange = NullScale
    /\ map = NoMap
    /\ legend = NoLegend
    /\ controls = [yearLabel |-> Empty, checked |-> FALSE, handlers |-> {}]
    /\ tooltip = [opacity |-> 0, html |-> ""]
    /\ pointer = "none"
    /\ modal = NoModal
    /\ mapTransform = 1
    /\ chartTransform = 1
    /\ lastEvent = NoEvent
    /\ kalman = NotCalled

NextBuild ==
    \/ WorldFetched
    \/ LoadData

SpecBuild == InitBuild /\ [][NextBuild]_vars

(***************************************************************************)
(* kalmanFilter alone: it is called on any history of up to MaxPoints      *)
(* points with the noise of the modal or a noise of one, and with its      *)
(* default noise on a history of equal temperatures.                       *)
(***************************************************************************)
MaxPoints == 3

KalmanYears == {Num(MinYear), Num(MaxYear)}
KalmanTemperatures == {Num(-1), Num(0), Num(1)}
UnitNoise == [processNoise |-> Frac(1, 1), measurementNoise |-> Frac(1, 1)]

KalmanPoints ==
    { [year |-> y, temperature |-> v] : y \in KalmanYears, v \in KalmanTemperatures }

Histories == SeqsUpTo(KalmanPoints, MaxPoints)

IsConstant(data) == \A i, j \in 1..Len(data) : data[i].temperature = data[j].temperature

KalmanCalls ==
    { KalmanCall(data, noise.processNoise, noise.measurementNoise) :
        data \in Histories, noise \in {ModalNoise, UnitNoise} }
      \cup { KalmanCall(data, DefaultNoise.processNoise, DefaultNoise.measurementNoise) :
                data \in { h \in Histories : IsConstant(h) } }

InitKalman ==
    /\ pc = "script"
    /\ localStorage = NoStore
    /\ worldFetch = "pending"
    /\ csvFetch = "pending"
    /\ csv = <<>>
    /\ worldData = FALSE
    /\ csvData = EmptyObj
    /\ currentYear = Num(DefaultYear)
    /\ measure = "absolute"
    /\ colorScale = "null"
    /\ colorScaleAbsolute = NullScale
    /\ colorScaleChange = NullScale
    /\ map = NoMap
    /\ legend = NoLegend
    /\ controls = [yearLabel |-> Empty, checked |-> FALSE, handlers |-> {}]
    /\ tooltip = [opacity |-> 0, html |-> ""]
    /\ pointer = "none"
    /\ modal = NoModal
    /\ mapTransform = 1
    /\ chartTransform = 1
    /\ lastEvent = NoEvent
    /\ kalman \in KalmanCalls

NextKalman ==
    \/ KalmanEnter
    \/ KalmanPoint
    \/ KalmanReturn

SpecKalman == InitKalman /\ [][NextKalman]_vars

(***************************************************************************)
(* Clicks on the map, on files in which a country has a record without a   *)
(* temperature in one year and a temperature in another: the page has run  *)
(* its script with nothing persisted and both fetches have resolved.       *)
(***************************************************************************)
ClickRows ==
    { MkRow(Y1850, "004", <<"1", "4">>, Empty),
      MkRow(Y2014, "004", Empty, <<"3">>),
      MkRow(Y2014, "008", Empty, Empty) }

ClickFiles ==
    { rows \in SeqsUpTo(ClickRows, MaxRows) :
        \A i, j \in 1..Len(rows) : i # j => rows[i] # rows[j] }

ClickSliderValues == {Y1850, Y2014}

InitClick ==
    /\ pc = "fetching"
    /\ localStorage = NoStore
    /\ worldFetch = "ok"
    /\ csvFetch = "ok"
    /\ csv \in ClickFiles
    /\ worldData = FALSE
    /\ csvData = EmptyObj
    /\ currentYear = Num(DefaultYear)
    /\ measure = "absolute"
    /\ colorScale = "null"
    /\ colorScaleAbsolute = NullScale
    /\ colorScaleChange = NullScale
    /\ map = NoMap
    /\ legend = NoLegend
    /\ controls = [yearLabel |-> Empty, checked |-> FALSE, handlers |-> {}]
    /\ tooltip = [opacity |-> 0, html |-> ""]
    /\ pointer = "none"
    /\ modal = NoModal
    /\ mapTransform = 1
    /\ chartTransform = 1
    /\ lastEvent = NoEvent
    /\ kalman = NotCalled

NextClick ==
    \/ LoadData
    \/ \E v \in ClickSliderValues : YearInput(v)
    \/ MeasureChange
    \/ \E f \in Features : MouseOver(f)
    \/ \E f \in Features : MouseOut(f)
    \/ \E f \in Features : Click(f)
    \/ CloseButton
    \/ BackdropClick

SpecClick == InitClick /\ [][NextClick]_vars

(***************************************************************************)
(* Properties                                                              *)
(***************************************************************************)
InBounds(y) == IsNum(y) /\ ~Lt(y, Num(MinYear)) /\ ~Gt(y, Num(MaxYear))

PersistedYearIs(str) == HasItem(localStorage, "year") /\ localStorage["year"] = str

\* The scale object colorScale refers to.
ActiveScale == ScaleRef(colorScale, colorScaleAbsolute, colorScaleChange)

\* The country has no record, in any year, whose absolute value is neither
\* null nor NaN.
NoHistory(isoCode) ==
    \A y \in DOMAIN csvData.val :
        ~(HasKey(csvData.val[y], isoCode) /\ Usable(csvData.val[y].val[isoCode].value))

\* C1: a slider input event whose value is outside [1850, 2014] leaves
\* currentYear at 2014 and persists "2014", not the requested year.
C1_SetYearClamps ==
    (lastEvent.type = "yearInput" /\ ~InBounds(ToNumber(lastEvent.value)))
        => (currentYear = Num(DefaultYear) /\ PersistedYearIs(StringOf(Num(DefaultYear))))

\* C2: the start-up hydration resets currentYear to 2014 and rewrites the
\* persisted year to "2014" for every persisted year that is out of bounds or
\* does not parse as a number, and restores an in-range year unchanged.
C2_StartupYearValidated ==
    [][(HydrateYear /\ HasItem(localStorage, "year"))
          => IF InBounds(ToNumber(localStorage["year"]))
             THEN /\ currentYear' = ToNumber(localStorage["year"])
                  /\ localStorage' = localStorage
             ELSE /\ currentYear' = Num(DefaultYear)
                  /\ localStorage'["year"] = StringOf(Num(DefaultYear))]_vars

\* C3: whatever measure was persisted and however often the checkbox is
\* toggled, the measure is 'absolute' or 'change'.
C3_ModeIsValid == measure \in {"absolute", "change"}

\* C4: when a slider input event has been handled the persisted year is the
\* current year, and when a checkbox change event has been handled the
\* persisted measure is the current measure.
C4_PersistedMatchesMemory ==
    /\ lastEvent.type = "yearInput"
         => (PersistedYearIs(StringOf(currentYear))
               /\ ToNumber(localStorage["year"]) = currentYear)
    /\ lastEvent.type = "measureChange"
         => (HasItem(localStorage, "measure") /\ localStorage["measure"] = measure)

C4_Witness ==
    /\ lastEvent.type = "yearInput"
    /\ lastEvent.value = Y1850
    /\ controls.checked
    /\ measure = "change"
    /\ localStorage = [year |-> Y1850, measure |-> "change"]

\* C5: once loaded, between any two events the fills are those of the current
\* year and measure under the scale of that measure, and the legend has the
\* domain and the tick format of that measure.
C5_ViewInSync ==
    pc = "ready" =>
        /\ measure = "absolute" => colorScale = "colorScaleAbsolute"
        /\ measure = "change" => colorScale = "colorScaleChange"
        /\ map.drawn
        /\ map.year = currentYear
        /\ \A n \in FeatureNames :
              map.fill[n] = FillOf(csvData, currentYear, measure, TRUE, ActiveScale,
                                   FeatureNamed(n))
        /\ legend.drawn
        /\ legend.domain = <<ActiveScale.domain[1], ActiveScale.domain[Len(ActiveScale.domain)]>>
        /\ legend.format = (IF measure = "absolute" THEN "degC" ELSE "signed%")

C5_Witness ==
    /\ lastEvent.type = "yearInput"
    /\ currentYear = Num(2014)
    /\ measure = "change"
    /\ map.fill["Albania"] # NoDataColour
    /\ legend.format = "signed%"
    /\ Len(csv) = 2

\* C6: a click on a country without any usable absolute value changes nothing
\* of the view: the modal (shown or not, and what it holds), the year, the
\* measure and the persisted values stay as they were.
C6_ClickWithoutHistoryIsNoOp ==
    [][\A f \in Features :
          (Click(f) /\ NoHistory(IsoOfFeature(f)))
             => UNCHANGED <<modal, chartTransform, controls, currentYear, measure,
                            colorScale, localStorage, map, legend, tooltip,
                            mapTransform>>]_vars

C6_Witness ==
    /\ lastEvent.type = "click"
    /\ HasRecord(csvData, map.year, IsoOfFeature(FeatureNamed(lastEvent.feature)))
    /\ NoHistory(IsoOfFeature(FeatureNamed(lastEvent.feature)))
    /\ modal.hasContent
    /\ modal.display = "none"

\* The rows whose year parses as a number.
RECURSIVE WellFormedRows(_)
WellFormedRows(rows) ==
    IF rows = <<>> THEN <<>>
    ELSE IF IsNum(ToNumber(Head(rows).year))
         THEN <<Head(rows)>> \o WellFormedRows(Tail(rows))
         ELSE WellFormedRows(Tail(rows))

\* C7: the index built from a file is the index of its rows with a parseable
\* year: a row with a malformed year adds no entry, and no point with a NaN
\* year reaches a country's history.
C7_MalformedRowsSkipped ==
    pc = "ready" =>
        /\ csvData = BuildCsvData(WellFormedRows(csv))
        /\ \A iso \in {"004", "4"} :
              \A q \in CountryDataOutcomes(csvData, iso) :
                 \A i \in 1..Len(q) : IsNum(q[i].year)

\* C8: the fill of every country path is '#ccc' when the drawn year has no
\* entry, the country has no record in it, or the record's value for the
\* measure is null or NaN, and the active scale's colour of that value
\* otherwise.
C8_FillIsNeutralOrScaled ==
    map.drawn =>
        \A n \in FeatureNames :
            LET key == StringOf(map.year)
                isoCode == IsoOfFeature(FeatureNamed(n))
                hasEntry == key \in DOMAIN csvData.val
                hasRecord == hasEntry /\ isoCode \in DOMAIN csvData.val[key].val
                rec == csvData.val[key].val[isoCode]
                v == IF measure = "absolute" THEN rec.value ELSE rec.percentChange
            IN  IF hasRecord /\ v.t = "num"
                THEN map.fill[n] = ApplyScale(ActiveScale, v)
                ELSE map.fill[n] = NoDataColour

C8_Witness ==
    /\ map.drawn
    /\ measure = "change"
    /\ map.year = Num(1850)
    /\ HasRecord(csvData, map.year, "004")
    /\ Lookup(csvData, map.year, "004").percentChange = NaN
    /\ map.fill["Afghanistan"] = NoDataColour
    /\ map.fill["Albania"] = NoDataColour
    /\ HasRecord(csvData, Num(2014), "008")

\* C9: no event handler raises an error.
C9_NoEventThrows == lastEvent.error = "none"

\* C10: when no row of the file has a usable relative change, the domain of
\* the relative scale is [-5, 0, 5].
C10_RelativeFallbackDomain ==
    (pc = "ready"
       /\ \A i \in 1..Len(csv) : ~Usable(FieldNum(csv[i].avg_temp_change)))
        => colorScaleChange.domain = <<Num(-5), Num(0), Num(5)>>

\* The usable relative changes of the records of the index.
RecordChanges ==
    LET pairs == UNION { {y} \X DOMAIN csvData.val[y].val : y \in DOMAIN csvData.val }
        change(p) == csvData.val[p[1]].val[p[2]].percentChange
    IN  { change(p) : p \in { q \in pairs : Usable(change(q)) } }

\* The position on its ramp of the colour a scale gives x, counted from the
\* blue end: 0 is the blue end, 1/2 the midpoint and 1 the red end.
ScaleT(scale, x) == Sub(Num(1), ApplyScale(scale, x).t)

\* C11: with a usable relative change in the file, the domain of the relative
\* scale is [-m, 0, m], m being the greatest |change| of a record; 0 is mapped
\* to the midpoint of the ramp, -x and x (x a |change| of a record, half of
\* one, or m) to positions that add up to 1, the negative one on the blue half
\* and the positive one on the red half.
C11_RelativeScaleSymmetric ==
    (pc = "ready" /\ RecordChanges # {}) =>
        LET scale == colorScaleChange
            m == scale.domain[3]
            sizes == { AbsJs(c) : c \in RecordChanges }
            xs == sizes \cup { Mul(Half, x) : x \in sizes }
        IN  /\ m \in sizes
            /\ \A x \in xs : ~Lt(m, x)
            /\ scale.domain = <<Neg(m), Num(0), m>>
            /\ ScaleT(scale, Num(0)) = Half
            /\ \A x \in xs :
                  /\ Add(ScaleT(scale, Neg(x)), ScaleT(scale, x)) = Num(1)
                  /\ ~Gt(ScaleT(scale, Neg(x)), Half)
                  /\ ~Lt(ScaleT(scale, x), Half)
                  /\ ApplyScale(scale, x).ramp = "RdBu"
                  /\ Lt(Num(0), x) =>
                        (Lt(ScaleT(scale, Neg(x)), Half) /\ Gt(ScaleT(scale, x), Half))

C11_Witness ==
    /\ pc = "ready"
    /\ RecordChanges = {Num(-5), Num(3)}
    /\ colorScaleChange.domain = <<Num(-5), Num(0), Num(5)>>
    /\ ScaleT(colorScaleChange, Num(3)) = Frac(4, 5)
    /\ ScaleT(colorScaleChange, Num(-3)) = Frac(1, 5)

\* The numbers among the absolute temperatures of the rows of the file.
RowValues ==
    { v \in { FieldNum(csv[i].avg_temp_absolute) : i \in 1..Len(csv) } : IsNum(v) }

BlueEnd == Colour("RdYlBu", Num(1))
RedEnd == Colour("RdYlBu", Num(0))
MidPoint == Colour("RdYlBu", Half)

\* C12 as claimed: with an absolute temperature in the file, also when all of
\* them are equal, the absolute scale gives the least one the blue end of the
\* ramp and the greatest one the red end.
C12_AbsoluteEndpoints ==
    (pc = "ready" /\ RowValues # {}) =>
        \A lo, hi \in RowValues :
            ((\A v \in RowValues : ~Lt(v, lo) /\ ~Lt(hi, v)))
               => /\ colorScaleAbsolute.domain = <<lo, hi>>
                  /\ ApplyScale(colorScaleAbsolute, lo) = BlueEnd
                  /\ ApplyScale(colorScaleAbsolute, hi) = RedEnd

\* C12 as amended: the domain is [min, max] over the rows of the file; with
\* two different temperatures the least is given the blue end and the
\* greatest the red end, and with a single temperature it is given the
\* midpoint of the ramp.
C12_AbsoluteEndpointsDistinct ==
    (pc = "ready" /\ RowValues # {}) =>
        \A lo, hi \in RowValues :
            ((\A v \in RowValues : ~Lt(v, lo) /\ ~Lt(hi, v)))
               => /\ colorScaleAbsolute.domain = <<lo, hi>>
                  /\ Lt(lo, hi) => /\ ApplyScale(colorScaleAbsolute, lo) = BlueEnd
                                   /\ ApplyScale(colorScaleAbsolute, hi) = RedEnd
                  /\ lo = hi => ApplyScale(colorScaleAbsolute, lo) = MidPoint

C12_Witness ==
    /\ pc = "ready"
    /\ RowValues = {Num(14), Num(16)}
    /\ colorScaleAbsolute.domain = <<Num(14), Num(16)>>
    /\ ApplyScale(colorScaleAbsolute, Num(14)) = BlueEnd
    /\ ApplyScale(colorScaleAbsolute, Num(16)) = RedEnd

\* a < b on fractions, by the integer parts and then the reciprocals of the
\* fractional parts, without forming a cross product.
RECURSIVE LessFrac(_, _, _, _)
LessFrac(n1, d1, n2, d2) ==
    LET q1 == n1 \div d1
        q2 == n2 \div d2
        r1 == n1 % d1
        r2 == n2 % d2
    IN  IF q1 # q2 THEN q1 < q2
        ELSE IF r2 = 0 THEN FALSE
        ELSE IF r1 = 0 THEN TRUE
        ELSE LessFrac(d2, r2, d1, r1)

Below(a, b) == IsNum(a) /\ IsNum(b) /\ LessFrac(a.n, a.d, b.n, b.d)
AtMost(a, b) == IsNum(a) /\ IsNum(b) /\ ~LessFrac(b.n, b.d, a.n, a.d)

\* C13: what kalmanFilter returns has the length of its input (none for an
\* empty input), and its i-th point has the year of the i-th input point and
\* that point's temperature as originalTemperature; while it runs,
\* smoothedData holds such points for the points processed so far.
C13_KalmanKeepsLengthAndOrder ==
    /\ Len(kalman.smoothedData) = kalman.i
    /\ \A i \in 1..Len(kalman.smoothedData) :
          /\ kalman.smoothedData[i].year = kalman.data[i].year
          /\ kalman.smoothedData[i].originalTemperature = kalman.data[i].temperature
    /\ kalman.pc = "returned" =>
          /\ Len(kalman.result) = Len(kalman.data)
          /\ \A i \in 1..Len(kalman.data) :
                /\ kalman.result[i].year = kalman.data[i].year
                /\ kalman.result[i].originalTemperature = kalman.data[i].temperature
                /\ IsNum(kalman.result[i].temperature)

C13_Witness ==
    /\ kalman.pc = "returned"
    /\ Len(kalman.result) = 3
    /\ kalman.data[1].year = Num(MaxYear)
    /\ kalman.data[2].year = Num(MinYear)
    /\ kalman.data[3].year = Num(MaxYear)
    /\ kalman.data[1].temperature = Num(1)
    /\ kalman.data[2].temperature = Num(-1)
    /\ kalman.result[2].temperature # kalman.result[2].originalTemperature

\* C14: on an input whose points all have the temperature v, every smoothed
\* temperature is v, whatever the noise.
C14_ConstantInputIsFixed ==
    IsConstant(kalman.data) =>
        /\ \A i \in 1..Len(kalman.smoothedData) :
              kalman.smoothedData[i].temperature = kalman.data[1].temperature
        /\ kalman.pc = "returned" =>
              \A i \in 1..Len(kalman.data) :
                 kalman.result[i].temperature = kalman.data[1].temperature

C14_Witness ==
    /\ kalman.pc = "returned"
    /\ Len(kalman.data) = 3
    /\ IsConstant(kalman.data)
    /\ kalman.measurementNoise = DefaultNoise.measurementNoise
    /\ kalman.result[3].temperature = Num(-1)
    /\ kalman.errorEstimate # InitialErrorEstimate

\* The two tunings the code names.
IsNamedTuning(k) ==
    \/ k.processNoise = DefaultNoise.processNoise
         /\ k.measurementNoise = DefaultNoise.measurementNoise
    \/ k.processNoise = ModalNoise.processNoise
         /\ k.measurementNoise = ModalNoise.measurementNoise

\* measurementNoise * processNoise / (processNoise + measurementNoise)
ClaimedFixedPoint(k) ==
    Div(Mul(k.measurementNoise, k.processNoise), Add(k.processNoise, k.measurementNoise))

\* errorEstimate' = (1 - gain) * (errorEstimate + processNoise), from e.
ErrorAfter(k, e) ==
    LET predictedError == PredictedError(e, k.processNoise)
    IN  UpdatedError(KalmanGain(predictedError, k.measurementNoise), predictedError)

\* C19 as claimed: under either tuning, each pass of the filter leaves an
\* errorEstimate no larger than the one before it, and
\* measurementNoise * processNoise / (processNoise + measurementNoise) is a
\* fixed point of the update of errorEstimate.
C19_ErrorTrendsToClaimedFixedPoint ==
    [][(KalmanPoint /\ IsNamedTuning(kalman))
          => /\ AtMost(kalman'.errorEstimate, kalman.errorEstimate)
             /\ ErrorAfter(kalman, ClaimedFixedPoint(kalman)) = ClaimedFixedPoint(kalman)]_vars

\* C19 as amended: under either tuning, each pass of the filter leaves an
\* errorEstimate no larger than the one before it (and smaller than the
\* initial 1.0), which stays above
\* measurementNoise * processNoise / (processNoise + measurementNoise); that
\* value is not a fixed point, the update maps it to a larger one.
C19_ErrorDecreasesAboveClaimedValue ==
    [][(KalmanPoint /\ IsNamedTuning(kalman))
          => /\ AtMost(kalman'.errorEstimate, kalman.errorEstimate)
             /\ Below(kalman'.errorEstimate, InitialErrorEstimate)
             /\ Below(ClaimedFixedPoint(kalman), kalman'.errorEstimate)
             /\ Below(ClaimedFixedPoint(kalman),
                      ErrorAfter(kalman, ClaimedFixedPoint(kalman)))]_vars

C19_Witness ==
    /\ kalman.pc = "forEach"
    /\ kalman.i = 3
    /\ kalman.processNoise = DefaultNoise.processNoise
    /\ kalman.measurementNoise = DefaultNoise.measurementNoise
    /\ kalman.errorEstimate = Frac(1167423, 6710005)

\* C20: every smoothed temperature lies between the least and the greatest
\* raw temperature of the history, hence strictly inside the domain of the
\* temperature axis, which is [least - 1, greatest + 1].
C20_SmoothedInsideAxis ==
    \A i \in 1..Len(kalman.smoothedData) :
        LET temperatures == { kalman.data[j].temperature : j \in 1..Len(kalman.data) }
            smoothed == kalman.smoothedData[i].temperature
        IN  /\ AtMost(D3Min(temperatures), smoothed)
            /\ AtMost(smoothed, D3Max(temperatures))
            /\ Below(YDomain(kalman.data)[1], smoothed)
            /\ Below(smoothed, YDomain(kalman.data)[2])

C20_Witness ==
    /\ kalman.pc = "returned"
    /\ Len(kalman.data) = 3
    /\ kalman.processNoise = ModalNoise.processNoise
    /\ kalman.measurementNoise = ModalNoise.measurementNoise
    /\ YDomain(kalman.data) = <<Num(-2), Num(2)>>
    /\ kalman.data[3].temperature = Num(1)
    /\ Below(Num(-1), kalman.result[3].temperature)
    /\ Below(kalman.result[3].temperature, Num(0))

\* The keys of csvData under which the country has a record with a usable
\* absolute value.
HistoryKeys(isoCode) ==
    { y \in DOMAIN csvData.val :
        HasKey(csvData.val[y], isoCode) /\ Usable(csvData.val[y].val[isoCode].value) }

\* C15: the history showCountryModal derives for a country is one sequence
\* (every derivation gives the same), with one point per year in which the
\* country has a usable absolute value, carrying that value, and with years
\* that are numbers in strictly ascending order.
C15_HistoryAscendingAndStable ==
    pc = "ready" =>
        \A isoCode \in {"004", "4"} :
            /\ Cardinality(CountryDataOutcomes(csvData, isoCode)) = 1
            /\ \A q \in CountryDataOutcomes(csvData, isoCode) :
                  /\ Len(q) = Cardinality(HistoryKeys(isoCode))
                  /\ \A y \in HistoryKeys(isoCode) :
                        \E i \in 1..Len(q) :
                           /\ StringOf(q[i].year) = y
                           /\ q[i].temperature = csvData.val[y].val[isoCode].value
                  /\ \A i \in 1..Len(q) : IsNum(q[i].year)
                  /\ \A i \in 1..(Len(q) - 1) : Lt(q[i].year, q[i + 1].year)

\* C16: once loaded, no step changes the data index or the two scales;
\* colorScale always refers to one of the two, and the scale it refers to
\* changes only when the measure checkbox is toggled.
C16_LoadedDataIsFrozen ==
    [][pc = "ready" =>
          /\ csvData' = csvData
          /\ colorScaleAbsolute' = colorScaleAbsolute
          /\ colorScaleChange' = colorScaleChange
          /\ colorScale \in {"colorScaleAbsolute", "colorScaleChange"}
          /\ colorScale' \in {"colorScaleAbsolute", "colorScaleChange"}
          /\ colorScale' # colorScale => MeasureChange]_vars

C16_Witness ==
    /\ lastEvent.type = "yearInput"
    /\ currentYear = Num(1700)
    /\ colorScale = "colorScaleChange"
    /\ modal.display = "flex"
    /\ mapTransform = 2
    /\ Len(csvData.ord) = 2
    /\ colorScaleChange.domain = <<Num(-3), Num(0), Num(3)>>

\* C17: a map, a legend or a control handler exists only when both fetches
\* have resolved, in whichever order; once a fetch has failed none of them
\* ever exists, the page stays failed and the fetch is not issued again.
C17_NothingBeforeBothFetches ==
    [][/\ (map'.drawn \/ legend'.drawn \/ controls'.handlers # {} \/ worldData')
          => (worldFetch' = "ok" /\ csvFetch' = "ok")
       /\ (worldFetch = "failed" \/ csvFetch = "failed")
          => /\ pc = "failed" /\ pc' = "failed"
             /\ ~map'.drawn /\ ~legend'.drawn /\ controls'.handlers = {}
             /\ csvData' = EmptyObj /\ colorScale' = "null"
             /\ worldFetch = "failed" => worldFetch' = "failed"
             /\ csvFetch = "failed" => csvFetch' = "failed"]_vars

C17_Witness ==
    /\ pc = "failed"
    /\ worldFetch = "ok"
    /\ csvFetch = "failed"
    /\ lastEvent.type = "mapZoom"
    /\ ~map.drawn
    /\ controls.handlers = {}

\* C18: a map zoom changes the map transform and nothing else of the page, a
\* chart zoom the chart transform and nothing else, and neither these nor a
\* click on a country changes what is persisted.
C18_ZoomsAreIndependent ==
    [][/\ (\E k \in 0..MaxZoomK : MapZoom(k))
          => UNCHANGED <<chartTransform, modal, localStorage, currentYear, measure,
                         colorScale, map, legend, controls, tooltip>>
       /\ (\E k \in 0..MaxZoomK : ChartZoom(k))
          => UNCHANGED <<mapTransform, modal, localStorage, currentYear, measure,
                         colorScale, map, legend, controls, tooltip>>
       /\ (\E f \in Features : Click(f))
          => UNCHANGED <<mapTransform, localStorage, currentYear, measure>>]_vars

C18_Witness ==
    /\ lastEvent.type = "mapZoom"
    /\ mapTransform = 1
    /\ chartTransform = 2
    /\ modal.display = "flex"
    /\ localStorage = [year |-> Y1850, measure |-> "absolute"]

\* C21: a click on a country shows the modal for that country exactly when
\* the country has a record in the year the map was last drawn for and a
\* usable absolute value in some year, and otherwise leaves the modal as it
\* was; a shown modal is hidden only by its close button or a click on its
\* backdrop, and a slider input or a checkbox change leaves it as it is.
C21_ClickOpensOnRecordAndHistory ==
    [][/\ \A f \in Features :
             Click(f) =>
                IF HasRecord(csvData, map.year, IsoOfFeature(f))
                      /\ ~NoHistory(IsoOfFeature(f))
                THEN /\ modal'.display = "flex"
                     /\ modal'.hasContent
                     /\ modal'.title = Lookup(csvData, map.year, IsoOfFeature(f)).country
                     /\ Len(modal'.countryData) > 0
                     /\ \A i \in 1..Len(modal'.countryData) :
                           Usable(modal'.countryData[i].temperature)
                ELSE modal' = modal
       /\ (modal.display = "flex" /\ modal'.display # "flex")
             => (CloseButton \/ BackdropClick)
       /\ ((\E v \in SliderValues : YearInput(v)) \/ MeasureChange)
             => modal' = modal]_vars

C21_Witness ==
    /\ lastEvent.type = "click"
    /\ lastEvent.feature = "Afghanistan"
    /\ map.year = Num(2014)
    /\ measure = "change"
    /\ HasRecord(csvData, map.year, "004")
    /\ Lookup(csvData, map.year, "004").value = Null
    /\ modal.display = "flex"
    /\ modal.title = "Afghanistan"
    /\ Len(modal.countryData) = 1
    /\ modal.countryData[1].year = Num(1850)

====
